---- MODULE Spec2Model ----
(***************************************************************************)
(* A model of py9backup (src/py9backup/backup.py): the path-specification  *)
(* data model (RichPath / ReducedPath), the priority calculation, the      *)
(* merge-and-dedupe of reduce_many and the resolution loop of              *)
(* gather_effective_files.                                                 *)
(*                                                                         *)
(* Python strings are modelled as sequences of one-character strings, so   *)
(* that strip, split, count, slicing and comparison are computed on the    *)
(* characters as the code computes them.                                   *)
(***************************************************************************)
EXTENDS Integers, Sequences, FiniteSets, TLC

VARIABLES
    rps,                 \* gather_effective_files: the RichPaths passed in
    pc,                  \* gather_effective_files: position in the function
    reduced,             \* the ReducedPaths yielded by RichPath.reduce_many
    ix,                  \* index in reduced of the next rdp of the for loop
    effective_by_depth,  \* depth -> set of accepted paths
    out,                 \* the returned list
    raised,              \* the exception that ended the call ("none": none)
    fn_rp,               \* a RichPath under test (a set of at most one)
    fn_arg,              \* the string argument / the serialized line
    fn_ret,              \* the value returned by the function applied
    fn_pc,               \* which function has been applied
    manifest,            \* group -> its manifest file CONFIG_DIR/<group>.txt
    backup,              \* group -> its backup file CONFIG_DIR/.<group>.bkp
    last,                \* the last command run, its arguments and outcome
    nops                 \* the number of commands run

vars == <<rps, pc, reduced, ix, effective_by_depth, out, raised,
          fn_rp, fn_arg, fn_ret, fn_pc, manifest, backup, last, nops>>

gather_vars == <<rps, pc, reduced, ix, effective_by_depth, out, raised>>
fn_vars == <<fn_rp, fn_arg, fn_ret, fn_pc>>
man_vars == <<manifest, backup, last, nops>>

----------------------------------------------------------------------------
(* Bounds of the model.                                                    *)

\* the longest collection of RichPaths handed to gather_effective_files
MaxSpecs == 3
\* the longest path string a RichPath under test is built from
MaxPathLen == 3
\* the longest raw line handed to RichPath.parse
MaxLineLen == 5
\* the longest string handed to calc_raw_path_priority
MaxArgLen == 4
\* the longest sequence of commands run on the manifests
MaxOps == 3

----------------------------------------------------------------------------
(* Python str operations.                                                  *)

\* ord() of the characters the model uses
Ord(c) ==
    CASE c = "\n" -> 10
      [] c = " "  -> 32
      [] c = "*"  -> 42
      [] c = "/"  -> 47
      [] c = "?"  -> 63
      [] c = "\\" -> 92
      [] c = "a"  -> 97
      [] c = "c"  -> 99
      [] c = "g"  -> 103
      [] c = "r"  -> 114
      [] c = "w"  -> 119
      [] c = "x"  -> 120

\* str < str: lexicographic on code points
RECURSIVE StrLess(_, _)
StrLess(s, t) ==
    IF t = <<>> THEN FALSE
    ELSE IF s = <<>> THEN TRUE
    ELSE IF Head(s) = Head(t) THEN StrLess(Tail(s), Tail(t))
    ELSE Ord(Head(s)) < Ord(Head(t))

\* s[lo:] and s[:hi] of Python (0-based, clipped)
SliceFrom(s, lo) == IF lo >= Len(s) THEN <<>> ELSE SubSeq(s, lo + 1, Len(s))
SliceTo(s, hi) == IF hi >= Len(s) THEN s ELSE SubSeq(s, 1, hi)

\* s.lstrip(chars), s.rstrip(chars), s.strip(chars)
RECURSIVE LStrip(_, _)
LStrip(s, chars) ==
    IF s # <<>> /\ Head(s) \in chars THEN LStrip(Tail(s), chars) ELSE s

RECURSIVE RStrip(_, _)
RStrip(s, chars) ==
    IF s # <<>> /\ s[Len(s)] \in chars
    THEN RStrip(SubSeq(s, 1, Len(s) - 1), chars)
    ELSE s

Strip(s, chars) == LStrip(RStrip(s, chars), chars)

\* the characters str.strip() with no argument removes
Whitespace == {" ", "\n"}

\* s.count(c) for a one-character c
RECURSIVE Count(_, _)
Count(s, c) ==
    IF s = <<>> THEN 0
    ELSE (IF Head(s) = c THEN 1 ELSE 0) + Count(Tail(s), c)

\* s.split(sep) for a one-character sep: "" splits to [""]
RECURSIVE Split(_, _)
Split(s, sep) ==
    IF \A i \in 1..Len(s) : s[i] # sep THEN <<s>>
    ELSE LET i == CHOOSE j \in 1..Len(s) :
                      s[j] = sep /\ \A k \in 1..(j - 1) : s[k] # sep
         IN  <<SubSeq(s, 1, i - 1)>> \o Split(SubSeq(s, i + 1, Len(s)), sep)

\* sep.join(parts)
RECURSIVE Join(_, _)
Join(parts, sep) ==
    IF parts = <<>> THEN <<>>
    ELSE IF Len(parts) = 1 THEN parts[1]
    ELSE parts[1] \o sep \o Join(Tail(parts), sep)

\* sum of a sequence of integers
RECURSIVE Sum(_)
Sum(xs) == IF xs = <<>> THEN 0 ELSE Head(xs) + Sum(Tail(xs))

\* the elements of a sequence
Range(xs) == {xs[i] : i \in DOMAIN xs}

\* all strings over an alphabet of length at most n
RECURSIVE StringsUpTo(_, _)
StringsUpTo(alphabet, n) ==
    IF n = 0 THEN {<<>>}
    ELSE LET shorter == StringsUpTo(alphabet, n - 1)
         IN  shorter \cup {Append(s, c) : s \in shorter, c \in alphabet}

----------------------------------------------------------------------------
(* is_glob, is_fs_ancestor, calc_raw_path_priority.                        *)

\* a faulty is_glob: the lookbehind (?<!\\) is left out
is_glob_any_star(segment) == \E i \in 1..Len(segment) : segment[i] = "*"

\* re.search(r"(?<!\\)\*", segment): a "*" not preceded by a backslash
is_glob(segment) ==
    \E i \in 1..Len(segment) :
        segment[i] = "*" /\ (i = 1 \/ segment[i - 1] # "\\")

\* posixpath.commonpath of two paths: ok = FALSE is its ValueError
\* ("Can't mix absolute and relative paths")
RECURSIVE CommonPrefix(_, _)
CommonPrefix(a, b) ==
    IF a = <<>> \/ b = <<>> \/ Head(a) # Head(b) THEN <<>>
    ELSE <<Head(a)>> \o CommonPrefix(Tail(a), Tail(b))

PathParts(p) == SelectSeq(Split(p, "/"), LAMBDA c : c # <<>>)

commonpath(a, b) ==
    LET isabs(p) == SliceTo(p, 1) = <<"/">>
        common == CommonPrefix(PathParts(a), PathParts(b))
    IN  IF isabs(a) # isabs(b)
        THEN [ok |-> FALSE, value |-> <<>>]
        ELSE [ok |-> TRUE,
              value |-> (IF isabs(a) THEN <<"/">> ELSE <<>>)
                            \o Join(common, <<"/">>)]

\* is_fs_ancestor raises (commonpath's ValueError)
is_fs_ancestor_raises(candidate, path) ==
    ~commonpath(RStrip(candidate, {"/"}), RStrip(path, {"/"})).ok

\* is_fs_ancestor returns True
is_fs_ancestor(candidate, path) ==
    LET c == RStrip(candidate, {"/"})
        cp == commonpath(c, RStrip(path, {"/"}))
    IN  cp.ok /\ cp.value = c

calc_raw_path_priority(path) ==
    IF path = <<"/">> THEN 0
    ELSE LET segments == Split(Strip(path, {"/"}), "/")
         IN  Sum([i \in DOMAIN segments |->
                      1 - (IF is_glob(segments[i]) THEN 1 ELSE 0)])

----------------------------------------------------------------------------
(* The filesystem the calls run against: a small tree under "/", in the    *)
(* shape of the tree of src/test/test_fns.py.                              *)
(*     /           directory                                               *)
(*     /r          directory                                               *)
(*     /r/a        directory                                               *)
(*     /r/a/c      file                                                    *)
(*     /r/c        file                                                    *)
(* and /r/c/x, a path that does not exist (below a file).                  *)

P_root == <<"/">>
P_r == <<"/", "r">>
P_ra == <<"/", "r", "/", "a">>
P_rac == <<"/", "r", "/", "a", "/", "c">>
P_rc == <<"/", "r", "/", "c">>
P_rcx == <<"/", "r", "/", "c", "/", "x">>

FsDirs == {P_root, P_r, P_ra}
FsFiles == {P_rac, P_rc}
FsAll == FsDirs \cup FsFiles

\* os.getcwd()
Cwd == <<"/", "w">>

\* Path(path_str).expanduser().absolute().as_posix(): empty components are
\* dropped, a trailing slash is dropped, exactly two leading slashes are
\* kept, a relative path is joined to the working directory.  (No string of
\* the model starts with "~" or has a "." component.)
as_posix(path_str) ==
    LET parts == PathParts(path_str)
        root == IF SliceTo(path_str, 2) = <<"/", "/">>
                    /\ SliceTo(path_str, 3) # <<"/", "/", "/">>
                THEN <<"/", "/">>
                ELSE IF SliceTo(path_str, 1) = <<"/">> THEN <<"/">> ELSE <<>>
    IN  IF root # <<>> THEN root \o Join(parts, <<"/">>)
        ELSE IF parts = <<>> THEN Cwd
        ELSE Cwd \o <<"/">> \o Join(parts, <<"/">>)

\* os.path.lexists, os.path.isdir
lexists(p) ==
    /\ as_posix(p) \in FsAll
    /\ (p # <<>> /\ p[Len(p)] = "/") => as_posix(p) \in FsDirs
isdir(p) == as_posix(p) \in FsDirs

\* os.path.join(a, b)
os_path_join(a, b) ==
    IF SliceTo(b, 1) = <<"/">> THEN b
    ELSE IF a = <<>> \/ a[Len(a)] = "/" THEN a \o b
    ELSE a \o <<"/">> \o b

\* os.path.split(p): (head, tail) around the last slash
os_path_split(p) ==
    LET i == IF Count(p, "/") = 0 THEN 0
             ELSE CHOOSE j \in 1..Len(p) :
                      p[j] = "/" /\ \A k \in (j + 1)..Len(p) : p[k] # "/"
        head == SliceTo(p, i)
    IN  [head |-> IF head # <<>> /\ RStrip(head, {"/"}) # <<>>
                  THEN RStrip(head, {"/"}) ELSE head,
         tail |-> SliceFrom(p, i)]

\* the paths strictly below directory d, relative to d
relative_below(d) ==
    LET dparts == PathParts(as_posix(d))
    IN  {Join(SubSeq(PathParts(n), Len(dparts) + 1, Len(PathParts(n))), <<"/">>) :
            n \in {m \in FsAll :
                      /\ Len(PathParts(m)) > Len(dparts)
                      /\ SubSeq(PathParts(m), 1, Len(dparts)) = dparts}}

\* os.listdir(d): the names in d; not a directory: nothing (glob swallows
\* the OSError)
listdir(d) ==
    IF ~isdir(d) THEN {}
    ELSE {n \in relative_below(d) : Count(n, "/") = 0}

\* Path(p).iterdir() as strings; ok = FALSE when p is not a directory
\* (NotADirectoryError, FileNotFoundError)
iterdir(p) ==
    IF as_posix(p) \in FsDirs
    THEN [ok |-> TRUE, error |-> "none",
          value |-> {os_path_join(as_posix(p), n) : n \in listdir(p)}]
    ELSE [ok |-> FALSE,
          error |-> IF as_posix(p) \in FsFiles THEN "NotADirectoryError"
                    ELSE "FileNotFoundError",
          value |-> {}]

\* fnmatch.fnmatch(name, pat) for patterns of literal characters and "*"
RECURSIVE fnmatch(_, _)
fnmatch(name, pat) ==
    IF pat = <<>> THEN name = <<>>
    ELSE IF Head(pat) = "*"
         THEN \/ fnmatch(name, Tail(pat))
              \/ name # <<>> /\ fnmatch(Tail(name), pat)
    ELSE name # <<>> /\ Head(name) = Head(pat) /\ fnmatch(Tail(name), Tail(pat))

\* glob.has_magic
has_magic(s) == \E i \in 1..Len(s) : s[i] \in {"*", "?", "["}

\* glob._glob0, _glob1, _glob2: the names matching basename in dirname
glob_in_dir(dirname, basename) ==
    IF ~has_magic(basename)
    THEN IF basename = <<>>
         THEN (IF isdir(dirname) THEN {<<>>} ELSE {})
         ELSE (IF lexists(os_path_join(dirname, basename)) THEN {basename} ELSE {})
    ELSE IF basename = <<"*", "*">>
    THEN {<<>>} \cup (IF isdir(dirname) THEN relative_below(dirname) ELSE {})
    ELSE {n \in listdir(dirname) : fnmatch(n, basename)}

\* glob.iglob(pathname, recursive=True) for an absolute pathname, as the set
\* of the strings it yields
RECURSIVE iglob(_)
iglob(pathname) ==
    IF ~has_magic(pathname)
    THEN (IF lexists(pathname) THEN {pathname} ELSE {})
    ELSE LET sp == os_path_split(pathname)
             dirs == IF sp.head # pathname /\ has_magic(sp.head)
                     THEN iglob(sp.head) ELSE {sp.head}
         IN  UNION {{os_path_join(d, name) : name \in glob_in_dir(d, sp.tail)} :
                        d \in dirs}

----------------------------------------------------------------------------
(* RichPath and ReducedPath.                                               *)

\* RichPath.__init__
RichPath(path_str, exclude, sticky, is_glob_flag) ==
    [raw_entry |-> as_posix(path_str), exclude |-> exclude,
     sticky |-> sticky, is_glob |-> is_glob_flag]

\* ReducedPath(path, _rel_prio, excl); _rel_prio is Optional[int]: the empty
\* set is None, {n} is n
ReducedPath(path, rel, excl) == [path |-> path, _rel_prio |-> rel, excl |-> excl]

\* ReducedPath.depth
depth(r) == Count(Strip(r.path, {"/"}), "/")

\* ReducedPath.rel_prio
rel_prio(r) ==
    IF r._rel_prio # {} THEN CHOOSE n \in r._rel_prio : TRUE ELSE depth(r)

\* ReducedPath.priority, and the order of the tuples (depth, path, rel_prio)
priority(r) == <<depth(r), r.path, rel_prio(r)>>

\* a faulty order of the priorities: the path is compared before the depth
priority_less_path_first(a, b) ==
    LET ka == priority(a)
        kb == priority(b)
    IN  \/ StrLess(ka[2], kb[2])
        \/ ka[2] = kb[2] /\ ka[1] < kb[1]
        \/ ka[2] = kb[2] /\ ka[1] = kb[1] /\ ka[3] < kb[3]

priority_less(a, b) ==
    LET ka == priority(a)
        kb == priority(b)
    IN  \/ ka[1] < kb[1]
        \/ ka[1] = kb[1] /\ StrLess(ka[2], kb[2])
        \/ ka[1] = kb[1] /\ ka[2] = kb[2] /\ ka[3] < kb[3]

\* sorted(S, key=priority) of a collection of ReducedPaths with distinct keys
RECURSIVE sorted_by_priority(_)
sorted_by_priority(S) ==
    IF S = {} THEN <<>>
    ELSE LET m == CHOOSE x \in S : \A y \in S \ {x} : ~priority_less(y, x)
         IN  <<m>> \o sorted_by_priority(S \ {m})

\* sorted(group, key=rel_prio): Python's sort is stable
RECURSIVE sorted_by_rel_prio(_)
sorted_by_rel_prio(group) ==
    IF group = <<>> THEN <<>>
    ELSE LET front == sorted_by_rel_prio(SubSeq(group, 1, Len(group) - 1))
             x == group[Len(group)]
             keep == SelectSeq(front, LAMBDA e : rel_prio(e) <= rel_prio(x))
             rest == SelectSeq(front, LAMBDA e : rel_prio(e) > rel_prio(x))
         IN  keep \o <<x>> \o rest

\* RichPath.iter_reduced: the ReducedPaths of one RichPath, in yield order
iter_reduced(rp) ==
    LET raw == rp.raw_entry
    IN  IF ~is_glob(raw)
        THEN <<ReducedPath(raw, {}, rp.exclude)>>
        ELSE sorted_by_priority(
                 {ReducedPath(expanded, {calc_raw_path_priority(raw)}, rp.exclude) :
                      expanded \in iglob(raw)})

G_r_star == <<"/", "r", "/", "*">>
G_star_c == <<"/", "*", "/", "c">>
G_r_rec_c == <<"/", "r", "/", "*", "*", "/", "c">>

\* the literal paths and the patterns a RichPath handed to
\* gather_effective_files is built from (no pattern ends in "**")
LiteralPaths == {P_root, P_r, P_ra, P_rac, P_rc, P_rcx}
GlobPatterns == {G_r_star, G_star_c, G_r_rec_c}

\* the RichPaths as add_files builds them: a glob iff the path has an
\* unescaped "*", sticky iff the path does not exist (--allow-nx)
GatherSpecs ==
    {RichPath(p, x, ~is_glob(p) /\ ~lexists(p), is_glob(p)) :
        p \in LiteralPaths \cup GlobPatterns, x \in BOOLEAN}

\* iter_reduced of the RichPaths above, computed once: the filesystem does
\* not change during a call
IterReducedOf == [rp \in GatherSpecs |-> iter_reduced(rp)]
iter_reduced_memo(rp) ==
    IF rp \in GatherSpecs THEN IterReducedOf[rp] ELSE iter_reduced(rp)

\* a faulty merge: the streams are chained one after the other
RECURSIVE merge_chained(_)
merge_chained(streams) ==
    IF streams = <<>> THEN <<>> ELSE Head(streams) \o merge_chained(Tail(streams))

\* heapq.merge(*streams, key=priority): the least head first, and among
\* equal keys the head of the earliest stream
RECURSIVE merge(_)
merge(streams) ==
    LET live == {i \in DOMAIN streams : streams[i] # <<>>}
    IN  IF live = {} THEN <<>>
        ELSE LET i == CHOOSE k \in live :
                          \A j \in live \ {k} :
                              /\ ~priority_less(Head(streams[j]), Head(streams[k]))
                              /\ j < k => priority_less(Head(streams[k]), Head(streams[j]))
             IN  <<Head(streams[i])>> \o merge([streams EXCEPT ![i] = Tail(@)])

\* a faulty reduce_many loop: the first entry of each group is yielded ([0])
RECURSIVE reduce_groups_first(_)
reduce_groups_first(by_prio) ==
    IF by_prio = <<>> THEN <<>>
    ELSE LET n == CHOOSE k \in 1..Len(by_prio) :
                      /\ \A j \in 1..k : by_prio[j].path = by_prio[1].path
                      /\ k < Len(by_prio) => by_prio[k + 1].path # by_prio[1].path
         IN  <<by_prio[1]>> \o reduce_groups_first(SubSeq(by_prio, n + 1, Len(by_prio)))

\* for _, group in groupby(by_prio, key=path): yield sorted(group, ...)[-1]
RECURSIVE reduce_groups(_)
reduce_groups(by_prio) ==
    IF by_prio = <<>> THEN <<>>
    ELSE LET n == CHOOSE k \in 1..Len(by_prio) :
                      /\ \A j \in 1..k : by_prio[j].path = by_prio[1].path
                      /\ k < Len(by_prio) => by_prio[k + 1].path # by_prio[1].path
             group == sorted_by_rel_prio(SubSeq(by_prio, 1, n))
         IN  <<group[Len(group)]>>
                 \o reduce_groups(SubSeq(by_prio, n + 1, Len(by_prio)))

\* RichPath.reduce_many
reduce_many(specs) ==
    reduce_groups(merge([i \in DOMAIN specs |-> iter_reduced_memo(specs[i])]))

----------------------------------------------------------------------------
(* gather_effective_files.                                                 *)

\* effective_by_depth is a defaultdict(set)
Level(eff, d) == IF d \in DOMAIN eff THEN eff[d] ELSE {}
SetLevel(eff, d, paths) == [k \in DOMAIN eff \cup {d} |-> IF k = d THEN paths ELSE eff[k]]

\* a faulty exclusion: the path is discarded from its own level and no
\* ancestor is split
exclude_without_split(eff, rdp, dx) ==
    {[eff |-> SetLevel(eff, depth(rdp), Level(eff, depth(rdp)) \ {rdp.path}),
      err |-> "none"]}

\* a faulty exclusion: after the first ancestor found is split no further
\* level is scanned (the break leaves both loops)
RECURSIVE exclude_single_split(_, _, _)
exclude_single_split(eff, rdp, dx) ==
    IF dx >= depth(rdp)
    THEN {[eff |-> SetLevel(eff, depth(rdp), Level(eff, depth(rdp)) \ {rdp.path}),
           err |-> "none"]}
    ELSE LET stops == {c \in Level(eff, dx) :
                          \/ is_fs_ancestor_raises(c, rdp.path)
                          \/ is_fs_ancestor(c, rdp.path)}
         IN  IF stops = {} THEN exclude_single_split(eff, rdp, dx + 1)
             ELSE UNION {
                 IF is_fs_ancestor_raises(candidate_prefix, rdp.path)
                 THEN {[eff |-> eff, err |-> "ValueError"]}
                 ELSE LET children == iterdir(candidate_prefix)
                          removed == SetLevel(eff, dx, Level(eff, dx) \ {candidate_prefix})
                      IN  IF ~children.ok
                          THEN {[eff |-> removed, err |-> children.error]}
                          ELSE exclude_single_split(
                                   SetLevel(removed, dx + 1,
                                            Level(removed, dx + 1) \cup children.value),
                                   rdp, depth(rdp))
                 : candidate_prefix \in stops}

\* The body of the for loop for an excluded rdp, from level dx on: the set
\* of its possible results (eff, the exception raised or "none").  A level is
\* a Python set, iterated in an order the code does not control: the loop
\* over a level stops at the first candidate that is an ancestor of the path
\* (which is split) or on which is_fs_ancestor raises.
RECURSIVE exclude_from(_, _, _)
exclude_from(eff, rdp, dx) ==
    IF dx >= depth(rdp)
    THEN {[eff |-> SetLevel(eff, depth(rdp), Level(eff, depth(rdp)) \ {rdp.path}),
           err |-> "none"]}
    ELSE LET stops == {c \in Level(eff, dx) :
                          \/ is_fs_ancestor_raises(c, rdp.path)
                          \/ is_fs_ancestor(c, rdp.path)}
         IN  IF stops = {} THEN exclude_from(eff, rdp, dx + 1)
             ELSE UNION {
                 IF is_fs_ancestor_raises(candidate_prefix, rdp.path)
                 THEN {[eff |-> eff, err |-> "ValueError"]}
                 ELSE LET children == iterdir(candidate_prefix)
                          removed == SetLevel(eff, dx, Level(eff, dx) \ {candidate_prefix})
                      IN  IF ~children.ok
                          THEN {[eff |-> removed, err |-> children.error]}
                          ELSE exclude_from(
                                   SetLevel(removed, dx + 1,
                                            Level(removed, dx + 1) \cup children.value),
                                   rdp, dx + 1)
                 : candidate_prefix \in stops}

\* The body of the for loop for an included rdp, from level dx on
RECURSIVE include_from(_, _, _)
include_from(eff, rdp, dx) ==
    IF dx >= depth(rdp)
    THEN {[eff |-> SetLevel(eff, depth(rdp), Level(eff, depth(rdp)) \cup {rdp.path}),
           err |-> "none"]}
    ELSE IF \E p \in Level(eff, dx) : is_fs_ancestor_raises(p, rdp.path)
    THEN {[eff |-> eff, err |-> "ValueError"]}
    ELSE IF \E p \in Level(eff, dx) : is_fs_ancestor(p, rdp.path)
    THEN {[eff |-> eff, err |-> "none"]}
    ELSE include_from(eff, rdp, dx + 1)

\* one iteration of "for rdp in RichPath.reduce_many(rps)"
process_rdp(eff, rdp) ==
    IF rdp.excl THEN exclude_from(eff, rdp, 0) ELSE include_from(eff, rdp, 0)

\* sorted(out) of a set of strings
RECURSIVE sorted_strs(_)
sorted_strs(S) ==
    IF S = {} THEN <<>>
    ELSE LET m == CHOOSE x \in S : \A y \in S \ {x} : StrLess(x, y)
         IN  <<m>> \o sorted_strs(S \ {m})

\* out |= fns for every level; return sorted(out)
gather_result(eff) == sorted_strs(UNION {eff[d] : d \in DOMAIN eff})

\* gather_effective_files as a whole: the set of its possible outcomes, each
\* a returned list (err = "none") or the exception raised
RECURSIVE gather_from(_, _, _)
gather_from(eff, rdps, i) ==
    IF i > Len(rdps) THEN {[err |-> "none", out |-> gather_result(eff)]}
    ELSE UNION {IF o.err # "none" THEN {[err |-> o.err, out |-> <<>>]}
                ELSE gather_from(o.eff, rdps, i + 1) :
                    o \in process_rdp(eff, rdps[i])}

gather_effective_files(specs) == gather_from(<<>>, reduce_many(specs), 1)

----------------------------------------------------------------------------
(* RichPath.parse and RichPath.__str__.                                    *)

_FLAGS_LEN == 5

\* (index, character, keyword argument)
_FLAGS == <<<<0, "x", "exclude">>, <<1, "?", "sticky">>, <<2, "g", "is_glob">>>>

\* RichPath.parse: reading flags[ix] beyond the end of the line raises
\* IndexError
parse(raw_line) ==
    LET flags == SliceTo(raw_line, _FLAGS_LEN)
        path == Strip(SliceFrom(raw_line, _FLAGS_LEN + 1), Whitespace)
        flag(kwarg) == \E i \in DOMAIN _FLAGS :
                           /\ _FLAGS[i][3] = kwarg
                           /\ flags[_FLAGS[i][1] + 1] = _FLAGS[i][2]
    IN  IF \E i \in DOMAIN _FLAGS : _FLAGS[i][1] >= Len(flags)
        THEN [kind |-> "IndexError"]
        ELSE [kind |-> "RichPath",
              rp |-> RichPath(path, flag("exclude"), flag("sticky"), flag("is_glob"))]

\* RichPath.__str__
str(rp) ==
    LET set(kwarg) == CASE kwarg = "exclude" -> rp.exclude
                        [] kwarg = "sticky" -> rp.sticky
                        [] kwarg = "is_glob" -> rp.is_glob
        base == [k \in 1..(_FLAGS_LEN + 1) |->
                    IF \E i \in DOMAIN _FLAGS : _FLAGS[i][1] + 1 = k /\ set(_FLAGS[i][3])
                    THEN (CHOOSE f \in Range(_FLAGS) : f[1] + 1 = k)[2]
                    ELSE " "]
    IN  base \o rp.raw_entry

----------------------------------------------------------------------------
(* The manifest files of the groups and the functions that read and write  *)
(* them.  A file is a record: whether it exists and its lines, each a      *)
(* string that ends in "\n".                                               *)

Groups == {"a", "b"}

NoFile == [exists |-> FALSE, lines |-> <<>>]
File(lines) == [exists |-> TRUE, lines |-> lines]

\* the command last run and what it did; no command has run yet
NoCommand ==
    [op |-> "none", group |-> "-", new_name |-> "-", loop |-> <<>>,
     glob |-> "None", exclude |-> FALSE, allow_nx |-> FALSE,
     asked |-> FALSE, restored |-> FALSE, empty_commit |-> FALSE,
     overwrite |-> FALSE, outcome |-> "none"]

\* fp.exists() and fp.stat().st_size > 0
non_empty(fp) == fp.exists /\ fp.lines # <<>>

\* get_group_manifest_file: the manifest file afterwards (restored from the
\* backup when the user confirms), whether the call died, whether it prompted
get_group_manifest_file(fp, fp_bkp, need_exist, check_backup, answer) ==
    IF ~fp.exists
    THEN IF check_backup /\ fp_bkp.exists
         THEN [fp |-> IF answer THEN fp_bkp ELSE fp, die |-> FALSE,
               asked |-> TRUE, restored |-> answer]
         ELSE [fp |-> fp, die |-> need_exist, asked |-> FALSE, restored |-> FALSE]
    ELSE [fp |-> fp, die |-> FALSE, asked |-> FALSE, restored |-> FALSE]

\* get_group_rps, given the file get_group_manifest_file returned
get_group_rps(fp) ==
    IF ~fp.exists THEN <<>>
    ELSE [i \in DOMAIN fp.lines |-> parse(fp.lines[i]).rp]

\* set(rps): RichPaths hash and compare by raw_entry, and a set keeps the
\* element that was put in first
RECURSIVE dedupe(_)
dedupe(seq) ==
    IF seq = <<>> THEN <<>>
    ELSE LET front == dedupe(SubSeq(seq, 1, Len(seq) - 1))
             x == seq[Len(seq)]
         IN  IF \E i \in DOMAIN front : front[i].raw_entry = x.raw_entry
             THEN front ELSE Append(front, x)

\* RichPath.__lt__: globs first, then by raw_entry
rp_less(a, b) ==
    IF a.is_glob # b.is_glob THEN a.is_glob ELSE StrLess(a.raw_entry, b.raw_entry)

\* sorted(set(rps)), of RichPaths with pairwise distinct raw_entry
RECURSIVE sorted_rps(_)
sorted_rps(S) ==
    IF S = {} THEN <<>>
    ELSE LET m == CHOOSE x \in S : \A y \in S \ {x} : rp_less(x, y)
         IN  <<m>> \o sorted_rps(S \ {m})

\* commit_group_rps with the backup copied after the new contents are written
commit_group_rps_backup_after_write(fp, fp_bkp, rps_) ==
    LET kept == SelectSeq(sorted_rps(Range(dedupe(rps_))),
                          LAMBDA rp : rp.is_glob \/ rp.sticky \/ lexists(rp.raw_entry))
        fp1 == File([i \in DOMAIN kept |-> str(kept[i]) \o <<"\n">>])
    IN  [fp |-> fp1,
         fp_bkp |-> IF non_empty(fp1) THEN fp1 ELSE fp_bkp]

\* commit_group_rps: the manifest and the backup afterwards
commit_group_rps(fp, fp_bkp, rps_) ==
    LET bkp1 == IF non_empty(fp) THEN fp ELSE fp_bkp
        kept == SelectSeq(sorted_rps(Range(dedupe(rps_))),
                          LAMBDA rp : rp.is_glob \/ rp.sticky \/ lexists(rp.raw_entry))
        fp1 == File([i \in DOMAIN kept |-> str(kept[i]) \o <<"\n">>])
    IN  [fp |-> fp1,
         fp_bkp |-> IF ~bkp1.exists /\ non_empty(fp1) THEN fp1 ELSE bkp1]

\* the loop of add_files over the paths: for each path the value of glob it
\* was treated with and whether it was ignored; glob is "None" until set
RECURSIVE add_loop(_, _, _)
add_loop(paths, glob, allow_nx) ==
    IF paths = <<>> THEN <<>>
    ELSE LET path == Head(paths)
             glob1 == IF glob # "None" THEN glob
                      ELSE IF is_glob(path) THEN "True" ELSE "False"
             known == as_posix(path) \in FsFiles \cup FsDirs
         IN  <<[path |-> path, glob |-> glob1 = "True",
                ignored |-> ~(allow_nx \/ known \/ glob1 = "True")]>>
                 \o add_loop(Tail(paths), glob1, allow_nx)

\* new_rps, in the order the RichPaths were built
new_rps(loop, exclude, allow_nx) ==
    LET kept == SelectSeq(loop, LAMBDA t : ~t.ignored)
    IN  [i \in DOMAIN kept |-> RichPath(kept[i].path, exclude, allow_nx, kept[i].glob)]

\* re.search(regex, s) for the regular expressions of the model: "." and
\* strings without special characters
re_search(regex, s) ==
    IF regex = <<".">> THEN \E i \in DOMAIN s : s[i] # "\n"
    ELSE \E i \in 0..(Len(s) - Len(regex)) :
             SubSeq(s, i + 1, i + Len(regex)) = regex

\* forget: the manifest and the backup afterwards, whether the call died,
\* whether it prompted for the restoration and restored
forget(fp, fp_bkp, drop_backup, answer_restore, answer_delete) ==
    LET got == get_group_manifest_file(fp, fp_bkp, TRUE, TRUE, answer_restore)
        group_path == got.fp
        kept == [fp |-> group_path, fp_bkp |-> fp_bkp, die |-> FALSE,
                 asked |-> got.asked, restored |-> got.restored]
    IN  IF got.die THEN [kept EXCEPT !.die = TRUE]
        ELSE IF group_path.exists
        THEN IF group_path.lines # <<>> /\ ~answer_delete
             THEN kept
             ELSE [kept EXCEPT !.fp = NoFile,
                               !.fp_bkp = IF drop_backup THEN NoFile ELSE fp_bkp]
        ELSE IF drop_backup /\ fp_bkp.exists
        THEN IF fp_bkp.lines # <<>> /\ ~answer_delete
             THEN kept
             ELSE [kept EXCEPT !.fp_bkp = NoFile]
        ELSE kept

----------------------------------------------------------------------------
(* The inputs.                                                             *)

SeqsUpTo(S, n) == UNION {[1..k -> S] : k \in 0..n}

\* the RichPaths serialized and parsed back: built from absolute paths
TestedRichPaths ==
    {RichPath(<<"/">> \o p, x, s, g) :
        p \in StringsUpTo({"/", "a", " "}, MaxPathLen - 1),
        x \in BOOLEAN, s \in BOOLEAN, g \in BOOLEAN}

\* the raw lines handed to RichPath.parse
TestedLines == StringsUpTo({"x", "?", "g", " ", "/", "a"}, MaxLineLen)

\* the absolute paths and patterns handed to calc_raw_path_priority
TestedPaths ==
    {<<"/">> \o p : p \in StringsUpTo({"/", "a", "*", "\\"}, MaxArgLen - 1)}

\* the strings handed to is_glob
TestedSegments == StringsUpTo({"a", "*", "\\"}, MaxArgLen - 1)

\* the RichPaths handed to iter_reduced: every combination of flags, also an
\* is_glob flag that differs from what the path looks like (--glob, --no-glob)
TestedSpecs ==
    {RichPath(p, x, s, g) :
        p \in LiteralPaths \cup GlobPatterns,
        x \in BOOLEAN, s \in BOOLEAN, g \in BOOLEAN}

NoRet == [kind |-> "none"]

----------------------------------------------------------------------------
(* gather_effective_files, one iteration of its loop at a time.            *)

GatherIdle ==
    /\ rps = <<>>
    /\ pc = "idle"
    /\ reduced = <<>>
    /\ ix = 1
    /\ effective_by_depth = <<>>
    /\ out = <<>>
    /\ raised = "none"

FnIdle ==
    /\ fn_rp = {}
    /\ fn_arg = <<>>
    /\ fn_ret = NoRet
    /\ fn_pc = "idle"

\* the collections handed to gather_effective_files: the lines of a manifest
\* are written from a set of RichPaths, which hash and compare by raw_entry,
\* so the entries have pairwise distinct raw_entry; their order is free
GatherInputs ==
    {specs \in SeqsUpTo(GatherSpecs, MaxSpecs) :
        \A i, j \in DOMAIN specs :
            i # j => specs[i].raw_entry # specs[j].raw_entry}

\* gather_effective_files(rps) has been called
Init ==
    /\ rps \in GatherInputs
    /\ pc = "call"
    /\ reduced = <<>>
    /\ ix = 1
    /\ effective_by_depth = <<>>
    /\ out = <<>>
    /\ raised = "none"
    /\ FnIdle
    /\ manifest = [g \in Groups |-> NoFile]
    /\ backup = [g \in Groups |-> NoFile]
    /\ last = NoCommand
    /\ nops = 0

\* RichPath.reduce_many(rps)
ReduceMany ==
    /\ pc = "call"
    /\ reduced' = reduce_many(rps)
    /\ pc' = "loop"
    /\ UNCHANGED <<rps, ix, effective_by_depth, out, raised, fn_vars, man_vars>>

\* the loop body for the next rdp, which ends normally or raises
Process(outcomes) ==
    \E o \in outcomes :
        /\ effective_by_depth' = o.eff
        /\ raised' = o.err
        /\ IF o.err = "none"
           THEN ix' = ix + 1 /\ pc' = pc
           ELSE ix' = ix /\ pc' = "raised"
        /\ UNCHANGED <<rps, reduced, out, fn_vars, man_vars>>

ProcessExcluded ==
    /\ pc = "loop"
    /\ ix <= Len(reduced)
    /\ reduced[ix].excl
    /\ Process(exclude_from(effective_by_depth, reduced[ix], 0))

ProcessIncluded ==
    /\ pc = "loop"
    /\ ix <= Len(reduced)
    /\ ~reduced[ix].excl
    /\ Process(include_from(effective_by_depth, reduced[ix], 0))

\* return sorted(out)
Return ==
    /\ pc = "loop"
    /\ ix > Len(reduced)
    /\ out' = gather_result(effective_by_depth)
    /\ pc' = "done"
    /\ UNCHANGED <<rps, reduced, ix, effective_by_depth, raised, fn_vars, man_vars>>

Next == ReduceMany \/ ProcessExcluded \/ ProcessIncluded \/ Return

Spec == Init /\ [][Next]_vars

----------------------------------------------------------------------------
(* The functions on strings, applied to one input each.                    *)

InitFns ==
    /\ GatherIdle
    /\ manifest = [g \in Groups |-> NoFile]
    /\ backup = [g \in Groups |-> NoFile]
    /\ last = NoCommand
    /\ nops = 0
    /\ fn_pc = "init"
    /\ fn_ret = NoRet
    /\ \/ fn_rp \in {{rp} : rp \in TestedRichPaths \cup TestedSpecs} /\ fn_arg = <<>>
       \/ fn_rp = {} /\ fn_arg \in TestedLines \cup TestedPaths \cup TestedSegments

\* line = str(rp)
Str ==
    /\ fn_pc = "init"
    /\ fn_rp # {}
    /\ fn_arg' = str(CHOOSE rp \in fn_rp : TRUE)
    /\ fn_pc' = "str"
    /\ UNCHANGED <<fn_rp, fn_ret, gather_vars, man_vars>>

\* RichPath.parse(line), of a raw line or of a line str(rp) made
Parse ==
    /\ fn_pc = "str" \/ (fn_pc = "init" /\ fn_rp = {})
    /\ fn_ret' = parse(fn_arg)
    /\ fn_pc' = "parse"
    /\ UNCHANGED <<fn_rp, fn_arg, gather_vars, man_vars>>

\* calc_raw_path_priority(path)
CalcRawPathPriority ==
    /\ fn_pc = "init"
    /\ fn_rp = {}
    /\ fn_ret' = [kind |-> "int", value |-> calc_raw_path_priority(fn_arg)]
    /\ fn_pc' = "calc_raw_path_priority"
    /\ UNCHANGED <<fn_rp, fn_arg, gather_vars, man_vars>>

\* is_glob(segment)
IsGlob ==
    /\ fn_pc = "init"
    /\ fn_rp = {}
    /\ fn_ret' = [kind |-> "bool", value |-> is_glob(fn_arg)]
    /\ fn_pc' = "is_glob"
    /\ UNCHANGED <<fn_rp, fn_arg, gather_vars, man_vars>>

\* ReducedPath(path, None, False).depth and .rel_prio, of an absolute path
Depth ==
    /\ fn_pc = "init"
    /\ fn_rp = {}
    /\ SliceTo(fn_arg, 1) = <<"/">>
    /\ fn_ret' = [kind |-> "ReducedPath",
                  depth |-> depth(ReducedPath(fn_arg, {}, FALSE)),
                  rel_prio |-> rel_prio(ReducedPath(fn_arg, {}, FALSE))]
    /\ fn_pc' = "depth"
    /\ UNCHANGED <<fn_rp, fn_arg, gather_vars, man_vars>>

\* list(rp.iter_reduced())
IterReduced ==
    /\ fn_pc = "init"
    /\ fn_rp # {}
    /\ fn_ret' = [kind |-> "list",
                  value |-> iter_reduced(CHOOSE rp \in fn_rp : TRUE)]
    /\ fn_pc' = "iter_reduced"
    /\ UNCHANGED <<fn_rp, fn_arg, gather_vars, man_vars>>

NextFns == Str \/ Parse \/ CalcRawPathPriority \/ IsGlob \/ Depth \/ IterReduced

SpecFns == InitFns /\ [][NextFns]_vars

----------------------------------------------------------------------------
(* The commands add, del, show, forget and rename on the manifests of the  *)
(* groups, one command per step, from an empty CONFIG_DIR.                 *)

\* a path that does not exist and ends in a space
P_ra_sp == <<"/", "r", "/", "a", " ">>

\* the lists of paths, the options and the regular expressions of the commands
AddPaths == {<<P_ra>>, <<P_ra_sp>>, <<G_r_star, P_ra>>, <<P_ra, G_r_star>>}
AddOptions == {[exclude |-> FALSE, allow_nx |-> FALSE], [exclude |-> TRUE, allow_nx |-> TRUE]}
GlobOptions == {"None", "False"}
DelRegexes == {<<".">>, <<"r", "/", "a">>}

\* the answers click.confirm can return: it is called only when asked holds
Answers(asked) == IF asked THEN BOOLEAN ELSE {FALSE}

\* get_group_manifest_file prompts for the restoration of the group
AsksRestore(group) == ~manifest[group].exists /\ backup[group].exists

ManIdle ==
    /\ manifest = [g \in Groups |-> NoFile]
    /\ backup = [g \in Groups |-> NoFile]
    /\ last = NoCommand
    /\ nops = 0

InitManifest ==
    /\ ManIdle
    /\ GatherIdle
    /\ FnIdle

\* add GROUP PATHS [--exclude] [--allow-nx] [--glob/--no-glob]
add_files(group, paths, exclude, allow_nx, glob, answer) ==
    LET got == get_group_manifest_file(manifest[group], backup[group], FALSE, TRUE, answer)
        old == dedupe(get_group_rps(got.fp))
        loop == add_loop(paths, glob, allow_nx)
        all == dedupe(new_rps(loop, exclude, allow_nx) \o old)
        done == commit_group_rps(got.fp, backup[group], all)
    IN  /\ manifest' = [manifest EXCEPT ![group] = done.fp]
        /\ backup' = [backup EXCEPT ![group] = done.fp_bkp]
        /\ last' = [NoCommand EXCEPT !.op = "add", !.group = group, !.loop = loop,
                        !.glob = glob, !.exclude = exclude, !.allow_nx = allow_nx,
                        !.asked = got.asked, !.restored = got.restored,
                        !.empty_commit = (all = <<>>), !.outcome = "ok"]

Add ==
    /\ nops < MaxOps
    /\ nops' = nops + 1
    /\ \E group \in Groups, paths \in AddPaths, o \in AddOptions, glob \in GlobOptions :
           \E answer \in Answers(AsksRestore(group)) :
               add_files(group, paths, o.exclude, o.allow_nx, glob, answer)
    /\ UNCHANGED <<gather_vars, fn_vars>>

\* del GROUP REGEX
del_files(group, regex, answer_dot, answer) ==
    LET regex1 == IF regex = <<".">> /\ answer_dot THEN Cwd ELSE regex
        got == get_group_manifest_file(manifest[group], backup[group], FALSE, TRUE, answer)
        old == get_group_rps(got.fp)
        keep_rps == SelectSeq(old, LAMBDA rp : ~re_search(regex1, str(rp)))
        done == commit_group_rps(got.fp, backup[group], keep_rps)
    IN  /\ manifest' = [manifest EXCEPT ![group] = done.fp]
        /\ backup' = [backup EXCEPT ![group] = done.fp_bkp]
        /\ last' = [NoCommand EXCEPT !.op = "del", !.group = group,
                        !.asked = got.asked, !.restored = got.restored,
                        !.empty_commit = (keep_rps = <<>>), !.outcome = "ok"]

Del ==
    /\ nops < MaxOps
    /\ nops' = nops + 1
    /\ \E group \in Groups, regex \in DelRegexes :
           \E answer_dot \in Answers(regex = <<".">>), answer \in Answers(AsksRestore(group)) :
               del_files(group, regex, answer_dot, answer)
    /\ UNCHANGED <<gather_vars, fn_vars>>

\* show GROUP: get_group_rps(group, need_exist=True)
show_files(group, answer) ==
    LET got == get_group_manifest_file(manifest[group], backup[group], TRUE, TRUE, answer)
    IN  /\ manifest' = [manifest EXCEPT ![group] = got.fp]
        /\ backup' = backup
        /\ last' = [NoCommand EXCEPT !.op = "show", !.group = group,
                        !.asked = got.asked, !.restored = got.restored,
                        !.outcome = IF got.die THEN "die" ELSE "ok"]

Show ==
    /\ nops < MaxOps
    /\ nops' = nops + 1
    /\ \E group \in Groups :
           \E answer \in Answers(AsksRestore(group)) : show_files(group, answer)
    /\ UNCHANGED <<gather_vars, fn_vars>>

\* forget GROUP [--drop-backup]
Forget ==
    /\ nops < MaxOps
    /\ nops' = nops + 1
    /\ \E group \in Groups, drop_backup \in BOOLEAN :
         \E answer_restore \in Answers(AsksRestore(group)),
            answer_delete \in Answers(manifest[group].exists \/ backup[group].exists) :
           LET done == forget(manifest[group], backup[group], drop_backup,
                              answer_restore, answer_delete)
           IN  /\ manifest' = [manifest EXCEPT ![group] = done.fp]
               /\ backup' = [backup EXCEPT ![group] = done.fp_bkp]
               /\ last' = [NoCommand EXCEPT !.op = "forget", !.group = group,
                               !.asked = done.asked, !.restored = done.restored,
                               !.outcome = IF done.die THEN "die" ELSE "ok"]
    /\ UNCHANGED <<gather_vars, fn_vars>>

\* rename GROUP NEW_NAME
rename(group, new_name, answer_old, answer_new, overwrite, answer_restore, answer_delete) ==
    LET got == get_group_manifest_file(manifest[group], backup[group], FALSE, TRUE, answer_old)
        fp == got.fp
        got_new == get_group_manifest_file(manifest[new_name], backup[new_name],
                                           FALSE, TRUE, answer_new)
        new_fp == got_new.fp
        gone == forget(new_fp, backup[new_name], TRUE, answer_restore, answer_delete)
        record == [NoCommand EXCEPT !.op = "rename", !.group = group,
                       !.new_name = new_name, !.asked = got.asked,
                       !.restored = got.restored,
                       !.overwrite = (new_fp.exists /\ overwrite)]
    IN  IF ~fp.exists
        THEN \* die('Group "{group}" does not exist')
             /\ manifest' = manifest
             /\ backup' = backup
             /\ last' = [record EXCEPT !.outcome = "die"]
        ELSE IF new_fp.exists /\ ~overwrite
        THEN \* the overwrite was not confirmed
             /\ manifest' = [manifest EXCEPT ![group] = fp, ![new_name] = new_fp]
             /\ backup' = backup
             /\ last' = [record EXCEPT !.outcome = "ok"]
        ELSE IF gone.die
        THEN \* forget died: 'Group "{new_name}" does not exist.'
             /\ manifest' = [manifest EXCEPT ![group] = fp, ![new_name] = new_fp]
             /\ backup' = backup
             /\ last' = [record EXCEPT !.outcome = "die"]
        ELSE IF ~backup[group].exists
        THEN \* get_backup_fp(fp).rename(...) raises
             /\ manifest' = [manifest EXCEPT ![group] = fp, ![new_name] = gone.fp]
             /\ backup' = [backup EXCEPT ![new_name] = gone.fp_bkp]
             /\ last' = [record EXCEPT !.outcome = "FileNotFoundError"]
        ELSE /\ manifest' = [manifest EXCEPT ![group] = NoFile, ![new_name] = fp]
             /\ backup' = [backup EXCEPT ![group] = NoFile, ![new_name] = backup[group]]
             /\ last' = [record EXCEPT !.outcome = "ok"]

Rename ==
    /\ nops < MaxOps
    /\ nops' = nops + 1
    /\ \E group \in Groups, new_name \in Groups :
         \E answer_old \in Answers(AsksRestore(group)),
            answer_new \in Answers(AsksRestore(new_name)),
            overwrite \in Answers(manifest[new_name].exists \/ backup[new_name].exists),
            answer_restore \in Answers(AsksRestore(new_name)),
            answer_delete \in Answers(manifest[new_name].exists \/ backup[new_name].exists) :
           /\ group # new_name
           /\ rename(group, new_name, answer_old, answer_new, overwrite,
                     answer_restore, answer_delete)
    /\ UNCHANGED <<gather_vars, fn_vars>>

NextManifest == Add \/ Del \/ Show \/ Forget \/ Rename

SpecManifest == InitManifest /\ [][NextManifest]_vars

----------------------------------------------------------------------------
(* The claims.                                                             *)

\* p is f or a directory above f, by path components
AncestorOrEqual(p, f) ==
    /\ Len(PathParts(p)) <= Len(PathParts(f))
    /\ SubSeq(PathParts(f), 1, Len(PathParts(p))) = PathParts(p)

\* some returned path is f or an ancestor of f
Covered(f) == \E i \in DOMAIN out : AncestorOrEqual(out[i], f)

\* the specs are literal, on pairwise distinct existing paths below "/"
LiteralSpecsBelowRoot ==
    /\ \A i \in DOMAIN rps :
           /\ ~is_glob(rps[i].raw_entry)
           /\ rps[i].raw_entry \in FsAll \ {P_root}
    /\ \A i, j \in DOMAIN rps : i # j => rps[i].raw_entry # rps[j].raw_entry

\* the specs on f or above f, and the deepest of them
SpecsOver(f) == {i \in DOMAIN rps : AncestorOrEqual(rps[i].raw_entry, f)}
DeepestOver(f) ==
    CHOOSE i \in SpecsOver(f) :
        \A j \in SpecsOver(f) :
            Len(PathParts(rps[j].raw_entry)) <= Len(PathParts(rps[i].raw_entry))

\* C1: for literal include/exclude specs on existing paths below the root,
\* the call returns, and a file of the tree is covered by the returned list
\* iff some spec is on it or above it and the deepest such spec is an include.
C1_DeepestSpecDecides ==
    LiteralSpecsBelowRoot =>
        /\ pc # "raised"
        /\ pc = "done" =>
               \A f \in FsFiles :
                   Covered(f) <=> (SpecsOver(f) # {} /\ ~rps[DeepestOver(f)].exclude)

\* C1 witness: include /r, exclude /r/a, include /r/a/c has been resolved
C1_Witness ==
    /\ pc = "done"
    /\ LiteralSpecsBelowRoot
    /\ \E i, j, k \in DOMAIN rps :
           /\ rps[i].raw_entry = P_r /\ ~rps[i].exclude
           /\ rps[j].raw_entry = P_ra /\ rps[j].exclude
           /\ rps[k].raw_entry = P_rac /\ ~rps[k].exclude
    /\ out = <<P_rac, P_rc>>

\* C2: no two distinct returned paths are in an ancestor relation.
C2_NoReturnedAncestorPair ==
    pc = "done" =>
        \A i, j \in DOMAIN out :
            out[i] # out[j] => ~AncestorOrEqual(out[i], out[j])

\* C3: no returned path equals or is an ancestor of the path of a surviving
\* excluded ReducedPath.
C3_ExcludedNotCovered ==
    pc = "done" =>
        \A k \in DOMAIN reduced :
            reduced[k].excl =>
                \A i \in DOMAIN out : ~AncestorOrEqual(out[i], reduced[k].path)

\* the specs are exactly an include of directory D and an exclude of child
IncludeAndExcludeChild(D, child) ==
    /\ Len(rps) = 2
    /\ \E i, j \in DOMAIN rps :
           /\ rps[i].raw_entry = D /\ ~rps[i].exclude
           /\ rps[j].raw_entry = child /\ rps[j].exclude

\* C4: given only an include of a directory D and an exclude of its immediate
\* child, the immediate children of D other than that child are returned,
\* and nothing else.
C4_SplitOneLevel ==
    \A D \in FsDirs :
        \A child \in iterdir(D).value :
            IncludeAndExcludeChild(D, child) =>
                /\ pc # "raised"
                /\ pc = "done" => Range(out) = iterdir(D).value \ {child}

\* C5: a concrete path produced by a literal spec and by the expansion of a
\* glob spec is kept by reduce_many as the literal spec's entry, whose net
\* priority is the higher one.
C5_LiteralBeatsGlob ==
    pc # "call" =>
        \A i, j \in DOMAIN rps :
            /\ ~is_glob(rps[i].raw_entry)
            /\ is_glob(rps[j].raw_entry)
            /\ rps[i].raw_entry \in iglob(rps[j].raw_entry)
            => /\ \E k \in DOMAIN reduced :
                      /\ reduced[k].path = rps[i].raw_entry
                      /\ reduced[k]._rel_prio = {}
                      /\ reduced[k].excl = rps[i].exclude
               /\ calc_raw_path_priority(rps[j].raw_entry)
                      < rel_prio(ReducedPath(rps[i].raw_entry, {}, rps[i].exclude))

\* every ReducedPath the specs expand to
AllReduced(specs) == UNION {Range(iter_reduced_memo(specs[i])) : i \in DOMAIN specs}

\* C6: in the sequence reduce_many yields each concrete path appears once, and
\* the entry kept has the greatest relative priority among the entries the
\* specs expand to for that path.
C6_OnePerPathMaxPriority ==
    (pc = "loop" /\ ix = 1) =>
        LET all == AllReduced(rps)
        IN  /\ \A i, j \in DOMAIN reduced : i # j => reduced[i].path # reduced[j].path
            /\ {reduced[k].path : k \in DOMAIN reduced} = {e.path : e \in all}
            /\ \A k \in DOMAIN reduced :
                   /\ reduced[k] \in all
                   /\ \A e \in all :
                          e.path = reduced[k].path => rel_prio(e) <= rel_prio(reduced[k])

\* C6 witness: /r/c is produced by the pattern /r/* with relative priority 1
\* and by the pattern /r/**/c with relative priority 2, and the entry of the
\* latter was yielded for it
C6_Witness ==
    /\ pc = "loop"
    /\ \E i, j \in DOMAIN rps :
           /\ rps[i].raw_entry = G_r_star /\ rps[j].raw_entry = G_r_rec_c
           /\ rps[i].exclude # rps[j].exclude
           /\ \E k \in DOMAIN reduced :
                  /\ reduced[k].path = P_rc
                  /\ reduced[k]._rel_prio = {2}
                  /\ reduced[k].excl = rps[j].exclude

\* the specs in the order given by a permutation of their positions
Permuted(specs, f) == [i \in DOMAIN specs |-> specs[f[i]]]

\* every order of the same specs returns the list returned here:
\* gather_effective_files(specs) is the loop run on reduce_many(specs), and
\* the orders are grouped by the sequence reduce_many yields for them
SameForEveryOrder ==
    \A rdps \in {reduce_many(Permuted(rps, f)) : f \in Permutations(DOMAIN rps)} :
        \A o \in gather_from(<<>>, rdps, 1) :
            o.err = "none" => o.out = out

\* C7 as stated: the returned list is the same for every permutation of the
\* specs.
C7_OrderIndependent == pc = "done" => SameForEveryOrder

\* two specs produce the same concrete path with the same relative priority
\* and different excluded flags
PriorityTie ==
    \E i, j \in DOMAIN rps :
        /\ i # j
        /\ \E a \in Range(iter_reduced_memo(rps[i])), b \in Range(iter_reduced_memo(rps[j])) :
               a.path = b.path /\ rel_prio(a) = rel_prio(b) /\ a.excl # b.excl

\* C7 amended: the returned list is the same for every permutation of the
\* specs when no two of them produce the same concrete path with the same
\* relative priority and different excluded flags.
C7_OrderIndependentWithoutTies ==
    (pc = "done" /\ ~PriorityTie) => SameForEveryOrder

\* C7 witness: the exclude of /r/a was supplied before the include of /r and
\* the pattern /*/c, and the call returned
C7_Witness ==
    /\ pc = "done"
    /\ ~PriorityTie
    /\ Len(rps) = 3
    /\ rps[1].raw_entry = P_ra /\ rps[1].exclude
    /\ rps[2].raw_entry = P_r /\ ~rps[2].exclude
    /\ rps[3].raw_entry = G_star_c /\ ~rps[3].exclude
    /\ out = <<P_rc>>

\* C8: parsing the serialized line of a RichPath gives back its path and its
\* three flags.
C8_ParseStrRoundTrip ==
    (fn_pc = "parse" /\ fn_rp # {}) =>
        /\ fn_ret.kind = "RichPath"
        /\ fn_ret.rp \in fn_rp

\* C9: RichPath.parse fails on every line shorter than the flag field.
C9_ShortLineFails ==
    (fn_pc = "parse" /\ fn_rp = {} /\ Len(fn_arg) < _FLAGS_LEN) =>
        fn_ret.kind # "RichPath"

\* the segments of a path, the empty ones that leading and trailing slashes
\* give left out
SegmentsOf(path) ==
    LET all == Split(path, "/")
        first == {i \in DOMAIN all : all[i] # <<>>}
    IN  IF first = {} THEN (IF Count(path, "/") = 0 THEN all ELSE <<>>)
        ELSE SubSeq(all, CHOOSE i \in first : \A j \in first : i <= j,
                         CHOOSE i \in first : \A j \in first : j <= i)

\* a "*" of the segment is not escaped by a backslash right before it
HasUnescapedStar(seg) ==
    \E i \in DOMAIN seg : seg[i] = "*" /\ ~(i > 1 /\ seg[i - 1] = "\\")

LiteralSegments(path) ==
    Cardinality({i \in DOMAIN SegmentsOf(path) : ~HasUnescapedStar(SegmentsOf(path)[i])})

OnlySlashes(path) == \A i \in DOMAIN path : path[i] = "/"

\* C10: calc_raw_path_priority(path) is the number of segments of path
\* without an unescaped "*", the empty segments that leading and trailing
\* slashes give left out.
C10_CountsLiteralSegments ==
    (fn_pc = "calc_raw_path_priority" /\ fn_arg # <<>>) =>
        fn_ret.value = LiteralSegments(fn_arg)

\* where calc_raw_path_priority does count so: on "/" and on every path with
\* a character other than "/"; a path of two or more slashes gives 1
CountsLiteralSegmentsOfPaths ==
    (fn_pc = "calc_raw_path_priority" /\ fn_arg # <<>>) =>
        IF OnlySlashes(fn_arg) /\ Len(fn_arg) >= 2
        THEN fn_ret.value = 1
        ELSE fn_ret.value = LiteralSegments(fn_arg)

\* C11: is_glob(s) is true iff s contains a "*" that is not immediately
\* preceded by a backslash: "\*" alone is not a glob, "\**" and "*\*" are, and
\* a string with no "*" never is.
C11_IsGlobIffUnescapedStar ==
    fn_pc = "is_glob" =>
        /\ fn_ret.value <=> HasUnescapedStar(fn_arg)
        /\ fn_arg = <<"\\", "*">> => ~fn_ret.value
        /\ fn_arg \in {<<"\\", "*", "*">>, <<"*", "\\", "*">>} => fn_ret.value
        /\ Count(fn_arg, "*") = 0 => ~fn_ret.value

\* C11 witness: is_glob("\**") has returned True
C11_Witness ==
    /\ fn_pc = "is_glob"
    /\ fn_arg = <<"\\", "*", "*">>
    /\ fn_ret.value

\* C18: for a RichPath whose is_glob flag is false, whatever its path,
\* iter_reduced yields exactly one ReducedPath: the spec's own path, relative
\* priority None and the spec's excluded flag.
C18_FlagDecidesExpansion ==
    fn_pc = "iter_reduced" =>
        \A rp \in fn_rp :
            ~rp.is_glob =>
                fn_ret.value = <<ReducedPath(rp.raw_entry, {}, rp.exclude)>>

\* C19: ReducedPath.depth is the number of path segments of its path, and the
\* relative priority of a ReducedPath of a literal spec is that number.
C19_DepthIsSegmentCount ==
    fn_pc = "depth" =>
        /\ fn_ret.depth = Len(PathParts(fn_arg))
        /\ fn_ret.rel_prio = Len(PathParts(fn_arg))

\* the step is one iteration of the loop, for an excluded rdp, that ended
\* normally
ExcludedStep ==
    /\ pc = "loop" /\ ix <= Len(reduced) /\ reduced[ix].excl
    /\ ix' = ix + 1

\* the accepted paths of level d that the step removed
SplitAt(d) == Level(effective_by_depth, d) \ Level(effective_by_depth', d)

\* C17: when one excluded path is processed, at most one accepted ancestor is
\* split: the first covering ancestor found is replaced by its immediate
\* children at the next level and no further level is scanned, so all these
\* children but the excluded path itself are accepted afterwards.
C17_SingleSplit ==
    [][ExcludedStep =>
          \A d \in 0..(depth(reduced[ix]) - 1) :
              \A c \in SplitAt(d) :
                  iterdir(c).value \ {reduced[ix].path}
                      \subseteq Level(effective_by_depth', d + 1)]_vars

\* C17 amended: when one excluded path is processed, at most one accepted
\* ancestor is split per level, and after the split at level d the scan goes
\* on at the next levels, where the child that covers the excluded path is
\* split in turn: afterwards no accepted path of a level between d and the
\* path's depth is an ancestor of the excluded path, and the children that do
\* not cover it are accepted.
C17_SplitCascades ==
    [][ExcludedStep =>
          LET p == reduced[ix].path
              D == depth(reduced[ix])
          IN  \A d \in 0..(D - 1) :
                  SplitAt(d) # {} =>
                      /\ Cardinality(SplitAt(d)) = 1
                      /\ \A c \in SplitAt(d) :
                             /\ AncestorOrEqual(c, p)
                             /\ {k \in iterdir(c).value : ~AncestorOrEqual(k, p)}
                                    \subseteq Level(effective_by_depth', d + 1)
                      /\ \A e \in (d + 1)..D :
                             \A k \in Level(effective_by_depth', e) :
                                 ~AncestorOrEqual(k, p)]_vars

\* C17 witness: with /r accepted, the exclude of /r/a/c has split /r and then
\* /r/a in one iteration
C17_Witness ==
    /\ pc = "loop"
    /\ ix = 3
    /\ reduced[1] = ReducedPath(P_r, {}, FALSE)
    /\ reduced[2] = ReducedPath(P_rac, {}, TRUE)
    /\ Level(effective_by_depth, 0) = {}
    /\ Level(effective_by_depth, 1) = {P_rc}
    /\ Level(effective_by_depth, 2) = {}

\* C20: reduce_many yields its ReducedPaths in strictly ascending
\* (depth, path) order for any collection and order of specs, so the loop of
\* gather_effective_files processes an entry of depth d only after every
\* entry of a lower depth.
C20_AscendingDepthPath ==
    pc # "call" =>
        \A i, j \in DOMAIN reduced :
            i < j =>
                \/ depth(reduced[i]) < depth(reduced[j])
                \/ /\ depth(reduced[i]) = depth(reduced[j])
                   /\ StrLess(reduced[i].path, reduced[j].path)

\* C20 witness: the specs were supplied deepest first and the loop is past the
\* entries of depth 0 and 1
C20_Witness ==
    /\ pc = "loop"
    /\ ix = 3
    /\ Len(rps) = 3
    /\ rps[1].raw_entry = P_rac /\ rps[2].raw_entry = G_r_star /\ rps[3].raw_entry = P_r
    /\ [i \in DOMAIN reduced |-> reduced[i].path] = <<P_r, P_ra, P_rc, P_rac>>

\* C12: after any sequence of add and del commands the entries read from the
\* manifest of a group have pairwise distinct paths, and after an add every
\* path the add did not ignore has its line in the manifest, with the flags
\* (exclude, sticky, is_glob) of that add.
C12_OneEntryPerPath ==
    \A g \in Groups :
        LET entries == get_group_rps(manifest[g])
        IN  /\ \A i, j \in DOMAIN entries :
                   i # j => entries[i].raw_entry # entries[j].raw_entry
            /\ (last.op = "add" /\ last.group = g) =>
                   \A k \in DOMAIN last.loop :
                       ~last.loop[k].ignored =>
                           \E i \in DOMAIN manifest[g].lines :
                               manifest[g].lines[i] =
                                   str(RichPath(last.loop[k].path, last.exclude,
                                                last.allow_nx, last.loop[k].glob))
                                       \o <<"\n">>

\* C13: when add is given neither --glob nor --no-glob, each path is treated
\* as a glob iff that path itself has an unescaped "*", whatever the other
\* paths of the invocation and their order.
C13_GlobPerPath ==
    (last.op = "add" /\ last.glob = "None") =>
        \A k \in DOMAIN last.loop :
            last.loop[k].glob = is_glob(last.loop[k].path)

\* C14: when the manifest of a group is non-empty before the commit of an add
\* or a del, the backup afterwards holds exactly the manifest from before that
\* commit; and when the manifest file is missing and the backup exists, the
\* next command on the group prompts and, on confirmation, the manifest is
\* the backed-up contents: show leaves it so, add and del commit on top of it.
C14_BackupHoldsPrevious ==
    [][\A g \in Groups :
           (nops' = nops + 1 /\ last'.group = g) =>
               LET before == IF manifest[g].exists THEN manifest[g]
                             ELSE IF last'.restored THEN backup[g] ELSE NoFile
               IN  /\ (last'.op \in {"add", "del"} /\ non_empty(before)) =>
                          backup'[g] = before
                   /\ (~manifest[g].exists /\ backup[g].exists) =>
                          /\ last'.asked
                          /\ (last'.op = "show" /\ last'.restored) =>
                                 manifest'[g] = backup[g]
                   /\ last'.restored => (~manifest[g].exists /\ backup[g].exists)]_vars

\* C14 witness: the manifest was deleted, the add prompted, restored it from
\* the backup and committed other contents: the backup holds the restored
\* manifest, which differs from the new one
C14_Witness ==
    \E g \in Groups :
        /\ last.op = "add" /\ last.group = g
        /\ last.asked /\ last.restored
        /\ non_empty(backup[g]) /\ non_empty(manifest[g])
        /\ manifest[g] # backup[g]

\* C15: a commit of an empty collection of RichPaths, by add or by del, is a
\* no-op: the manifest file of the group is afterwards what it was before the
\* commit, and no empty file is written.
C15_EmptyCommitIsNoop ==
    [][(nops' = nops + 1 /\ last'.op \in {"add", "del"} /\ last'.empty_commit) =>
           LET g == last'.group
               before == IF last'.restored THEN backup[g] ELSE manifest[g]
           IN  manifest'[g] = before]_vars

\* C16: after rename A B is carried out, with A existing and B either absent
\* or existing and the overwrite confirmed, the manifest and the backup of B
\* are the former manifest and backup of A, and A has neither file.
C16_RenameMoves ==
    [][(nops' = nops + 1 /\ last'.op = "rename") =>
           LET A == last'.group
               B == last'.new_name
               fp == IF last'.restored THEN backup[A] ELSE manifest[A]
               absent == ~manifest[B].exists /\ ~backup[B].exists
           IN  (fp.exists /\ (absent \/ last'.overwrite)) =>
                   /\ manifest'[B] = fp
                   /\ backup'[B] = backup[A]
                   /\ manifest'[A] = NoFile
                   /\ backup'[A] = NoFile]_vars

\* C21: with need_exist=True, get_group_manifest_file never returns the path
\* of a manifest file that does not exist: after show, which reads the group
\* with need_exist=True, either the program died with the "does not exist"
\* error or the manifest file exists (possibly just restored from the backup).
C21_NeedExistReturnsExisting ==
    last.op = "show" =>
        \/ last.outcome = "die"
        \/ manifest[last.group].exists

====
